---- MODULE Spec2Model ----
(***************************************************************************)
(* Model of main.py: the comparison of two tabular files (xlsx / csv) and  *)
(* the five-tab report written to out/out.xlsx.                            *)
(*                                                                         *)
(* A dict row is [keys |-> <<column names in insertion order>>,            *)
(*                val  |-> [column name -> cell value]].                   *)
(* Cell values and column names are strings.  A table (list[dict]) is a    *)
(* sequence of dict rows.  A file on disk is a raw sheet                   *)
(* [header |-> <<names>>, cells |-> <<row of cells, ...>>].                *)
(***************************************************************************)
EXTENDS Integers, Sequences, FiniteSets, TLC

\* ------------------------------------------------------------- bounds
\* Longest table (data rows) and longest argument list explored.
MaxRows == 2
MaxArgs == 2

\* ------------------------------------------------------------- universe
Values == {"1", "2"}

Headers == {<<"id", "v">>, <<"v", "id">>, <<"id", "w">>}

SeqUpTo(S, n) == UNION {[1..k -> S] : k \in 0..n}

Range(s) == {s[i] : i \in DOMAIN s}

Min(a, b) == IF a < b THEN a ELSE b

\* The files of the working directory the arguments may name.
Paths == {"a.csv", "b.xlsx", "c.CSV", "notes.txt", "gone.csv"}

IsFile(path) == path # "gone.csv"

Suffix(path) ==
    CASE path = "a.csv"     -> ".csv"
      [] path = "b.xlsx"    -> ".xlsx"
      [] path = "c.CSV"     -> ".CSV"
      [] path = "notes.txt" -> ".txt"
      [] path = "gone.csv"  -> ".csv"

\* str.lower() on the suffixes above.
Lower(suffix) == IF suffix = ".CSV" THEN ".csv" ELSE suffix

\* str.replace(".", "") on the suffixes above.
StripDot(suffix) ==
    CASE suffix = ".csv"  -> "csv"
      [] suffix = ".xlsx" -> "xlsx"
      [] suffix = ".CSV"  -> "CSV"
      [] suffix = ".txt"  -> "txt"

POSSIBLE_SUFFIXES == <<".xlsx", ".csv">>

\* What a file may hold: a header row and up to MaxRows rows of cells.
Sheets ==
    UNION {{[header |-> h, cells |-> c] :
                c \in SeqUpTo([1..Len(h) -> Values], MaxRows)} : h \in Headers}

\* ------------------------------------------------------------- dicts
EmptyDict == [keys |-> <<>>, val |-> <<>>]

\* dict_[key] = value: a new key goes last, an old key keeps its place.
DictSet(dict_, key, value) ==
    [keys |-> IF key \in Range(dict_.keys) THEN dict_.keys
              ELSE Append(dict_.keys, key),
     val  |-> [k \in Range(dict_.keys) \cup {key} |->
                  IF k = key THEN value ELSE dict_.val[k]]]

\* Python's dict == dict: the same keys with equal values, in any order.
DictEq(a, b) == a.val = b.val

\* ------------------------------------------------------------- readers
RECURSIVE RowContentLoop(_, _, _, _)
RowContentLoop(columns, row, j, row_content) ==
    IF j > Len(row) THEN row_content
    ELSE RowContentLoop(columns, row, j + 1,
                        DictSet(row_content, columns[j], row[j]))

RECURSIVE RowsLoop(_, _, _)
RowsLoop(sheet, i, rows) ==
    IF i > Len(sheet.cells) THEN rows
    ELSE RowsLoop(sheet, i + 1,
                  Append(rows, RowContentLoop(sheet.header, sheet.cells[i], 1,
                                              EmptyDict)))

extract_data_from_xlsx(sheet) == RowsLoop(sheet, 1, <<>>)

\* csv.DictReader: one dict per data row, keyed by the header row.
extract_data_from_csv(sheet) ==
    [i \in 1..Len(sheet.cells) |->
        [keys |-> sheet.header,
         val  |-> [k \in Range(sheet.header) |->
                      sheet.cells[i][CHOOSE j \in 1..Len(sheet.header) :
                                        sheet.header[j] = k]]]]

\* ------------------------------------------------------------- validator
SymDiff(a, b) == (a \ b) \cup (b \ a)

\* The result of check_table_structure_integrity: what it raises.
check_table_structure_integrity(files) ==
    IF files[1] = <<>> \/ files[2] = <<>>
    THEN [exc |-> "IndexError", count |-> 0, columns |-> {}]
    ELSE LET diff == SymDiff(Range(files[1][1].keys), Range(files[2][1].keys))
         IN  IF diff # {}
             THEN [exc |-> "ValueError", count |-> Cardinality(diff),
                   columns |-> diff]
             ELSE [exc |-> "none", count |-> 0, columns |-> {}]

\* ------------------------------------------------------------- extractors
RowIn(row, file) == \E j \in 1..Len(file) : DictEq(row, file[j])

RECURSIVE DifferenceLoop(_, _, _, _)
DifferenceLoop(file_left, file_right, i, difference) ==
    IF i > Len(file_left) THEN difference
    ELSE DifferenceLoop(file_left, file_right, i + 1,
                        IF ~RowIn(file_left[i], file_right)
                        THEN Append(difference, file_left[i])
                        ELSE difference)

\* A difference that matches rows on the first column alone.
extract_difference_key_only(file_left, file_right) ==
    SelectSeq(file_left,
              LAMBDA row : ~\E j \in 1..Len(file_right) :
                  /\ row.keys[1] \in DOMAIN file_right[j].val
                  /\ row.val[row.keys[1]] = file_right[j].val[row.keys[1]])

_extract_difference(file_left, file_right) ==
    DifferenceLoop(file_left, file_right, 1, <<>>)

\* The zip loop of _extract_common_by_first_column from index i on.
RECURSIVE CommonLoop(_, _, _, _, _, _)
CommonLoop(file_left, file_right, first_column, i, common_left, common_right) ==
    IF i > Min(Len(file_left), Len(file_right))
    THEN [exc |-> "none", left |-> common_left, right |-> common_right]
    ELSE IF \/ first_column \notin DOMAIN file_left[i].val
            \/ first_column \notin DOMAIN file_right[i].val
         THEN [exc |-> "KeyError", left |-> <<>>, right |-> <<>>]
         ELSE IF file_left[i].val[first_column] = file_right[i].val[first_column]
              THEN CommonLoop(file_left, file_right, first_column, i + 1,
                              Append(common_left, file_left[i]),
                              Append(common_right, file_right[i]))
              ELSE CommonLoop(file_left, file_right, first_column, i + 1,
                              common_left, common_right)

\* A pairing that keeps every index, whatever the first column holds.
extract_common_unfiltered(file_left, file_right) ==
    [exc   |-> IF file_left = <<>> THEN "IndexError" ELSE "none",
     left  |-> IF file_left = <<>> THEN <<>>
               ELSE SubSeq(file_left, 1, Min(Len(file_left), Len(file_right))),
     right |-> IF file_left = <<>> THEN <<>>
               ELSE SubSeq(file_right, 1, Min(Len(file_left), Len(file_right)))]

\* A pairing keyed on the first column of the right table's header.
extract_common_right_key(file_left, file_right) ==
    IF file_left = <<>> \/ file_right = <<>>
    THEN [exc |-> "IndexError", left |-> <<>>, right |-> <<>>]
    ELSE CommonLoop(file_left, file_right, file_right[1].keys[1], 1, <<>>, <<>>)

_extract_common_by_first_column(file_left, file_right) ==
    IF file_left = <<>> \/ file_left[1].keys = <<>>
    THEN [exc |-> "IndexError", left |-> <<>>, right |-> <<>>]
    ELSE CommonLoop(file_left, file_right, file_left[1].keys[1], 1, <<>>, <<>>)

\* ------------------------------------------------------------- out/ directory
\* The out/ directory: whether it exists, its *.csv files (name -> rows
\* written) and out.xlsx (a sequence of sheets, <<>> when there is none).
NoFiles == [n \in {} |-> <<>>]

PutFile(csv, file_name, content) ==
    [n \in DOMAIN csv \cup {file_name} |->
        IF n = file_name THEN content ELSE csv[n]]

StaleCsv == <<<<"old">>>>

StaleXlsx == <<[title |-> "Onglet 1", rows |-> StaleCsv]>>

\* What out/ may hold before the run.
OutDirs ==
    { [exists |-> FALSE, csv |-> NoFiles, xlsx |-> <<>>],
      [exists |-> TRUE, csv |-> PutFile(NoFiles, "notes.csv", StaleCsv),
       xlsx |-> StaleXlsx] }

\* sorted() of the *.csv paths of out/: the names in lexicographic order.
NameOrder ==
    <<"notes.csv", "tab_1.csv", "tab_2.csv", "tab_3.csv", "tab_4.csv",
      "tab_5.csv">>

Sorted(names) == SelectSeq(NameOrder, LAMBDA n : n \in names)

Digit == <<"0", "1", "2", "3", "4", "5", "6", "7", "8", "9">>

\* str() of a non-negative int.
RECURSIVE PyStr(_)
PyStr(n) == IF n < 10 THEN Digit[n + 1] ELSE PyStr(n \div 10) \o Digit[(n % 10) + 1]

create_out_dir_if_not_exists(o) == [o EXCEPT !.exists = TRUE]

\* DictWriter.writerow: the row's values in fieldnames order, "" when missing.
CsvRow(fieldnames, row) ==
    [j \in 1..Len(fieldnames) |->
        IF fieldnames[j] \in DOMAIN row.val THEN row.val[fieldnames[j]] ELSE ""]

\* _write_csv: open(.., "w") creates or truncates the file, then data[0] is read.
_write_csv(o, file_name, data) ==
    IF ~o.exists THEN [out |-> o, exc |-> "FileNotFoundError"]
    ELSE IF data = <<>>
         THEN [out |-> [o EXCEPT !.csv = PutFile(o.csv, file_name, <<>>)],
               exc |-> "IndexError"]
         ELSE [out |-> [o EXCEPT !.csv =
                          PutFile(o.csv, file_name,
                                  <<data[1].keys>> \o
                                  [i \in 1..Len(data) |->
                                      CsvRow(data[1].keys, data[i])])],
               exc |-> "none"]

make_tab_1_file_a(o, files) == _write_csv(o, "tab_1.csv", files[1])

make_tab_2_file_b(o, files) == _write_csv(o, "tab_2.csv", files[2])

make_tab_3_in_file_a_but_not_in_b(o, files) ==
    _write_csv(o, "tab_3.csv", _extract_difference(files[1], files[2]))

make_tab_4_in_file_b_but_not_in_a(o, files) ==
    _write_csv(o, "tab_4.csv", _extract_difference(files[2], files[1]))

\* ------------------------------------------------------------- delta table
RECURSIVE HeadersLoop(_, _, _)
HeadersLoop(columns, j, headers) ==
    IF j > Len(columns) THEN headers
    ELSE HeadersLoop(columns, j + 1,
                     headers \o <<columns[j], columns[j], "Delta_" \o columns[j]>>)

_build_column_headers(columns) == HeadersLoop(columns, 1, <<>>)

\* defaultdict(int): a missing key reads as 0.
Count(total_differences, column) ==
    IF column \in DOMAIN total_differences THEN total_differences[column] ELSE 0

\* The comparison inverted.
IsDifferentInverted(row_a, row_b, column) ==
    IF row_a.val[column] = row_b.val[column] THEN 1 ELSE 0

IsDifferent(row_a, row_b, column) ==
    IF row_a.val[column] # row_b.val[column] THEN 1 ELSE 0

\* The inner loop over the columns of one aligned pair.
RECURSIVE ColumnLoop(_, _, _, _, _, _)
ColumnLoop(row_a, row_b, columns, j, merged_row, total_differences) ==
    IF j > Len(columns)
    THEN [merged_row |-> merged_row, total_differences |-> total_differences]
    ELSE LET column == columns[j]
             is_different == IsDifferent(row_a, row_b, column)
         IN  ColumnLoop(row_a, row_b, columns, j + 1,
                        merged_row \o <<row_a.val[column], row_b.val[column],
                                        PyStr(is_different)>>,
                        [c \in DOMAIN total_differences \cup {column} |->
                            IF c = column
                            THEN Count(total_differences, column) + is_different
                            ELSE total_differences[c]])

\* The outer loop over the aligned pairs.
RECURSIVE PairLoop(_, _, _, _, _)
PairLoop(common, columns, k, rows, total_differences) ==
    IF k > Min(Len(common.left), Len(common.right))
    THEN [rows |-> rows, total_differences |-> total_differences]
    ELSE LET r == ColumnLoop(common.left[k], common.right[k], columns, 1,
                             <<>>, total_differences)
         IN  PairLoop(common, columns, k + 1, Append(rows, r.merged_row),
                      r.total_differences)

RECURSIVE TotalsLoop(_, _, _, _)
TotalsLoop(columns, total_differences, j, totals_row) ==
    IF j > Len(columns) THEN totals_row
    ELSE TotalsLoop(columns, total_differences, j + 1,
                    totals_row \o
                    <<"", "", PyStr(Count(total_differences, columns[j]))>>)

make_tab_5_analysis(o, files) ==
    LET common == _extract_common_by_first_column(files[1], files[2])
    IN  IF common.exc # "none" THEN [out |-> o, exc |-> common.exc]
        ELSE IF common.left = <<>> THEN [out |-> o, exc |-> "IndexError"]
        ELSE IF ~o.exists THEN [out |-> o, exc |-> "FileNotFoundError"]
        ELSE LET columns == common.left[1].keys
                 headers == _build_column_headers(columns)
                 body    == PairLoop(common, columns, 1, <<>>, [c \in {} |-> 0])
                 totals_row == TotalsLoop(columns, body.total_differences, 1, <<>>)
             IN  [out |-> [o EXCEPT !.csv =
                             PutFile(o.csv, "tab_5.csv",
                                     <<headers>> \o body.rows \o <<totals_row>>)],
                  exc |-> "none"]

\* ------------------------------------------------------------- merge
\* One sheet per *.csv of out/ in sorted order, each file unlinked, then saved.
csv_tab_files_to_excel_sheets(o) ==
    LET csv_files == Sorted(DOMAIN o.csv)
    IN  [exists |-> o.exists,
         csv    |-> NoFiles,
         xlsx   |-> IF csv_files = <<>>
                    THEN <<[title |-> "Sheet", rows |-> <<>>]>>
                    ELSE [i \in 1..Len(csv_files) |->
                            [title |-> "Onglet " \o PyStr(i),
                             rows  |-> o.csv[csv_files[i]]]]]

\* ------------------------------------------------------------- arguments
RECURSIVE FilesLoop(_, _, _)
FilesLoop(argv, i, found) ==
    IF i > Len(argv) THEN found
    ELSE IF ~IsFile(argv[i]) THEN FilesLoop(argv, i + 1, found)
    ELSE IF Lower(Suffix(argv[i])) \notin Range(POSSIBLE_SUFFIXES)
         THEN FilesLoop(argv, i + 1, found)
    ELSE FilesLoop(argv, i + 1, Append(found, argv[i]))

extract_files_from_args(argv) == FilesLoop(argv, 1, <<>>)

\* globals()["extract_data_from_" + suffix]: the two readers defined.
HasReader(file) == StripDot(Suffix(file)) \in {"xlsx", "csv"}

Extract(file, sheet) ==
    IF StripDot(Suffix(file)) = "xlsx" THEN extract_data_from_xlsx(sheet)
    ELSE extract_data_from_csv(sheet)

\* ------------------------------------------------------------- state
VARIABLES
    pc,          \* the step of main() to run next, "exit" once the process ended
    files,       \* main's `files`: the two paths, then rebound to the two tables
    sheets,      \* what the input files read so far held on disk
    out,         \* the out/ directory
    out_before,  \* the out/ directory as the run found it
    exit_code,   \* the process exit status, -1 while running
    error,       \* the uncaught exception that ended the run, or "none"
    stdout,      \* the messages printed
    call         \* a direct call of one function: its arguments and result

vars == <<pc, files, sheets, out, out_before, exit_code, error, stdout, call>>

NoCall == [fn |-> "none", args |-> <<>>, ret |-> <<>>, exc |-> "none"]

Init ==
    /\ pc = "main"
    /\ files = <<>>
    /\ sheets = <<>>
    /\ out \in OutDirs
    /\ out_before = out
    /\ exit_code = -1
    /\ error = "none"
    /\ stdout = <<>>
    /\ call = NoCall

\* An uncaught exception: the interpreter prints a traceback and exits with 1.
Crash(exc) ==
    /\ error' = exc
    /\ exit_code' = 1
    /\ pc' = "exit"

\* One step of main() that writes to out/ and may raise.
WriteStep(result, next_pc) ==
    /\ out' = result.out
    /\ IF result.exc # "none" THEN Crash(result.exc)
       ELSE pc' = next_pc /\ UNCHANGED <<exit_code, error>>
    /\ UNCHANGED <<files, sheets, out_before, stdout, call>>

\* main, lines 216-219: filter the arguments, require two files.
MainArgs ==
    /\ pc = "main"
    /\ \E argv \in SeqUpTo(Paths, MaxArgs) :
          /\ files' = extract_files_from_args(argv)
          /\ IF Len(files') # 2
             THEN /\ stdout' = Append(stdout, [msg |-> "Erreur: 2 fichiers requis",
                                               count |-> 0, columns |-> {}])
                  /\ exit_code' = 2
                  /\ pc' = "exit"
             ELSE /\ pc' = "extract_data"
                  /\ UNCHANGED <<stdout, exit_code>>
    /\ UNCHANGED <<sheets, out, out_before, error, call>>

\* main, line 222: read file_a, then file_b, each with the reader of its suffix;
\* the same path given twice is the same file read twice.
MainExtractData ==
    /\ pc = "extract_data"
    /\ IF ~HasReader(files[1])
       THEN Crash("KeyError") /\ UNCHANGED <<files, sheets>>
       ELSE \E sheet_a \in Sheets :
              IF ~HasReader(files[2])
              THEN /\ Crash("KeyError")
                   /\ sheets' = <<sheet_a>>
                   /\ UNCHANGED files
              ELSE \E sheet_b \in (IF files[2] = files[1] THEN {sheet_a} ELSE Sheets) :
                     /\ sheets' = <<sheet_a, sheet_b>>
                     /\ files' = <<Extract(files[1], sheet_a),
                                   Extract(files[2], sheet_b)>>
                     /\ pc' = "check"
                     /\ UNCHANGED <<exit_code, error>>
    /\ UNCHANGED <<out, out_before, stdout, call>>

\* The directory created before the structure is checked.
MainCheckAfterMkdir ==
    /\ pc = "check"
    /\ out' = create_out_dir_if_not_exists(out)
    /\ LET raised == check_table_structure_integrity(files)
       IN  IF raised.exc = "ValueError"
           THEN /\ stdout' = Append(stdout, [msg |-> "Difference",
                                             count |-> raised.count,
                                             columns |-> raised.columns])
                /\ exit_code' = 1
                /\ pc' = "exit"
                /\ UNCHANGED error
           ELSE IF raised.exc # "none"
           THEN Crash(raised.exc) /\ UNCHANGED stdout
           ELSE pc' = "create_out_dir" /\ UNCHANGED <<stdout, exit_code, error>>
    /\ UNCHANGED <<files, sheets, out_before, call>>

\* main, lines 223-227: a ValueError is printed and ends the run with 1.
MainCheck ==
    /\ pc = "check"
    /\ LET raised == check_table_structure_integrity(files)
       IN  IF raised.exc = "ValueError"
           THEN /\ stdout' = Append(stdout, [msg |-> "Difference",
                                             count |-> raised.count,
                                             columns |-> raised.columns])
                /\ exit_code' = 1
                /\ pc' = "exit"
                /\ UNCHANGED error
           ELSE IF raised.exc # "none"
           THEN Crash(raised.exc) /\ UNCHANGED stdout
           ELSE pc' = "create_out_dir" /\ UNCHANGED <<stdout, exit_code, error>>
    /\ UNCHANGED <<files, sheets, out, out_before, call>>

\* main, line 229.
MainCreateOutDir ==
    /\ pc = "create_out_dir"
    /\ out' = create_out_dir_if_not_exists(out)
    /\ pc' = "tab_1"
    /\ UNCHANGED <<files, sheets, out_before, exit_code, error, stdout, call>>

\* main, lines 231-235.
MainTab1 == pc = "tab_1" /\ WriteStep(make_tab_1_file_a(out, files), "tab_2")

MainTab2 == pc = "tab_2" /\ WriteStep(make_tab_2_file_b(out, files), "tab_3")

MainTab3 ==
    pc = "tab_3" /\ WriteStep(make_tab_3_in_file_a_but_not_in_b(out, files), "tab_4")

MainTab4 ==
    pc = "tab_4" /\ WriteStep(make_tab_4_in_file_b_but_not_in_a(out, files), "tab_5")

MainTab5 == pc = "tab_5" /\ WriteStep(make_tab_5_analysis(out, files), "merge")

\* main, lines 237-239: merge the tabs, return 0.
MainMerge ==
    /\ pc = "merge"
    /\ out' = csv_tab_files_to_excel_sheets(out)
    /\ exit_code' = 0
    /\ pc' = "exit"
    /\ UNCHANGED <<files, sheets, out_before, error, stdout, call>>

Next ==
    \/ MainArgs
    \/ MainExtractData
    \/ MainCheck
    \/ MainCreateOutDir
    \/ MainTab1
    \/ MainTab2
    \/ MainTab3
    \/ MainTab4
    \/ MainTab5
    \/ MainMerge

Spec == Init /\ [][Next]_vars

\* ------------------------------------------------------------- direct calls
\* The tables the readers can return.
DataTables == {extract_data_from_csv(sheet) : sheet \in Sheets}

InitFn ==
    /\ pc = "exit"
    /\ files = <<>>
    /\ sheets = <<>>
    /\ out = [exists |-> FALSE, csv |-> NoFiles, xlsx |-> <<>>]
    /\ out_before = out
    /\ exit_code = -1
    /\ error = "none"
    /\ stdout = <<>>
    /\ \E file_left \in DataTables, file_right \in DataTables :
          call = [NoCall EXCEPT !.args = <<file_left, file_right>>]

CallExtractDifference ==
    /\ call.fn = "none"
    /\ call' = [call EXCEPT !.fn = "_extract_difference",
                            !.ret = _extract_difference(call.args[1], call.args[2])]
    /\ UNCHANGED <<pc, files, sheets, out, out_before, exit_code, error, stdout>>

CallExtractCommon ==
    /\ call.fn = "none"
    /\ LET r == _extract_common_by_first_column(call.args[1], call.args[2])
       IN  call' = [call EXCEPT !.fn = "_extract_common_by_first_column",
                                !.ret = <<r.left, r.right>>,
                                !.exc = r.exc]
    /\ UNCHANGED <<pc, files, sheets, out, out_before, exit_code, error, stdout>>

NextFn ==
    \/ CallExtractDifference
    \/ CallExtractCommon

SpecFn == InitFn /\ [][NextFn]_vars

\* ------------------------------------------------------------- properties
\* The k-th smallest index of a set of indices.
KthOf(S, k) == CHOOSE i \in S : Cardinality({j \in S : j < i}) = k - 1

EqualOnAllColumns(a, b) ==
    /\ Range(a.keys) = Range(b.keys)
    /\ \A c \in Range(a.keys) : a.val[c] = b.val[c]

\* Both input files were read; their column sets are those of their headers.
BothRead == Len(sheets) = 2

ColumnDiff == SymDiff(Range(sheets[1].header), Range(sheets[2].header))

\* C1: the structure check raises iff the symmetric difference of the two
\* tables' column sets is non-empty; it then reports exactly those columns
\* and their number; with identical column sets it raises nothing and
\* changes nothing.
C1_StructureCheckRaisesIffColumnsDiffer ==
    [][pc = "check" =>
         /\ (pc' = "exit") <=> (ColumnDiff # {})
         /\ ColumnDiff # {} =>
               stdout' = Append(stdout, [msg |-> "Difference",
                                         count |-> Cardinality(ColumnDiff),
                                         columns |-> ColumnDiff])
         /\ ColumnDiff = {} =>
               UNCHANGED <<files, out, stdout, error, exit_code>>]_vars

\* C2: _extract_difference(L, R) is the subsequence of L, in order and with
\* duplicates kept, of the rows no row of R equals on all columns; so
\* _extract_difference(A, A) is empty.
C2_DifferenceIsUnmatchedSubsequence ==
    call.fn = "_extract_difference" =>
        LET L == call.args[1]
            R == call.args[2]
            kept == {i \in 1..Len(L) :
                        \A j \in 1..Len(R) : ~EqualOnAllColumns(L[i], R[j])}
        IN  /\ Len(call.ret) = Cardinality(kept)
            /\ \A k \in 1..Len(call.ret) : call.ret[k] = L[KthOf(kept, k)]
            /\ (L = R => call.ret = <<>>)

\* A duplicated row of L, absent from a non-empty R, is kept twice.
C2_Witness ==
    /\ call.fn = "_extract_difference"
    /\ Len(call.args[1]) = 2
    /\ call.args[1][1] = call.args[1][2]
    /\ call.args[2] # <<>>
    /\ Len(call.ret) = 2

Validated(L, R) ==
    /\ L # <<>>
    /\ R # <<>>
    /\ Range(L[1].keys) = Range(R[1].keys)

\* C3: for validated non-empty tables, the k-th aligned pair is (L[i], R[i])
\* for the k-th index i below min(|L|, |R|) at which L and R agree on the
\* first column of L's header; every other index is dropped.
C3_PairsAreMatchingIndicesInOrder ==
    (call.fn = "_extract_common_by_first_column"
        /\ Validated(call.args[1], call.args[2])) =>
        LET L == call.args[1]
            R == call.args[2]
            key == L[1].keys[1]
            matched == {i \in 1..Min(Len(L), Len(R)) :
                           L[i].val[key] = R[i].val[key]}
        IN  /\ call.exc = "none"
            /\ Len(call.ret[1]) = Cardinality(matched)
            /\ Len(call.ret[2]) = Cardinality(matched)
            /\ \A k \in 1..Cardinality(matched) :
                  /\ call.ret[1][k] = L[KthOf(matched, k)]
                  /\ call.ret[2][k] = R[KthOf(matched, k)]

\* Index 1 is dropped and index 2 kept, the headers being in different orders.
C3_Witness ==
    /\ call.fn = "_extract_common_by_first_column"
    /\ Validated(call.args[1], call.args[2])
    /\ call.args[1][1].keys # call.args[2][1].keys
    /\ Len(call.args[1]) = 2
    /\ Len(call.args[2]) = 2
    /\ call.ret = <<<<call.args[1][2]>>, <<call.args[2][2]>>>>

\* The aligned pairs and the columns make_tab_5_analysis works on.
Tab5 == out.csv["tab_5.csv"]

Aligned == _extract_common_by_first_column(files[1], files[2])

Differs(k, column) == Aligned.left[k].val[column] # Aligned.right[k].val[column]

\* C4: tab 5 is the header [C, C, "Delta_C"] per column, one delta row per
\* aligned pair in order holding (value of A, value of B, "1" if they differ
\* else "0") per column, then one totals row holding two empty cells and the
\* number of differing pairs per column.
C4_DeltaTable ==
    pc = "merge" =>
        LET columns == files[1][1].keys
            n == Len(columns)
            m == Len(Aligned.left)
        IN  /\ Len(Tab5) = m + 2
            /\ \A r \in 1..(m + 2) : Len(Tab5[r]) = 3 * n
            /\ \A j \in 1..n :
                  /\ Tab5[1][3 * j - 2] = columns[j]
                  /\ Tab5[1][3 * j - 1] = columns[j]
                  /\ Tab5[1][3 * j] = "Delta_" \o columns[j]
            /\ \A k \in 1..m : \A j \in 1..n :
                  /\ Tab5[k + 1][3 * j - 2] = Aligned.left[k].val[columns[j]]
                  /\ Tab5[k + 1][3 * j - 1] = Aligned.right[k].val[columns[j]]
                  /\ Tab5[k + 1][3 * j] =
                        (IF Differs(k, columns[j]) THEN "1" ELSE "0")
            /\ \A j \in 1..n :
                  /\ Tab5[m + 2][3 * j - 2] = ""
                  /\ Tab5[m + 2][3 * j - 1] = ""
                  /\ Tab5[m + 2][3 * j] =
                        Digit[Cardinality({k \in 1..m : Differs(k, columns[j])}) + 1]
                  /\ Tab5[m + 2][3 * j] =
                        Digit[Cardinality({k \in 1..m : Tab5[k + 1][3 * j] = "1"}) + 1]

\* Two aligned pairs, one of them differing in the second column.
C4_Witness ==
    /\ pc = "merge"
    /\ Len(Tab5) = 4
    /\ Tab5[4][6] = "1"

\* C5: with other than two valid files the run ends with status 2, with
\* differing column sets it ends with status 1, and in both cases out/ is
\* left as it was: not created, nothing written.
C5_EarlyExitLeavesOutUntouched ==
    /\ (pc # "main" /\ Len(files) # 2) =>
          (pc = "exit" /\ exit_code = 2 /\ out = out_before)
    /\ (BothRead /\ pc # "check" /\ ColumnDiff # {}) =>
          (pc = "exit" /\ exit_code = 1 /\ out = out_before)

\* Two tables with different columns: the difference is printed, the run
\* ends with 1 and out/ still does not exist.
C5_Witness ==
    /\ pc = "exit"
    /\ BothRead
    /\ ColumnDiff # {}
    /\ Len(stdout) = 1
    /\ exit_code = 1
    /\ ~out.exists

\* C6: with identical column sets every step runs to completion and the run
\* ends with status 0; here for two tables that both have rows.
C6_NoOtherFailure ==
    (pc = "exit" /\ BothRead /\ ColumnDiff = {}
        /\ sheets[1].cells # <<>> /\ sheets[2].cells # <<>>) =>
        (error = "none" /\ exit_code = 0)

\* C7: with an empty left or right table the pairing returns two empty
\* sequences and raises nothing.
C7_EmptyTablePairsToNothing ==
    (call.fn = "_extract_common_by_first_column"
        /\ (call.args[1] = <<>> \/ call.args[2] = <<>>)) =>
        (call.exc = "none" /\ call.ret = <<<<>>, <<>>>>)

\* C8: with the same columns and a header-only table the validation passes
\* and the run ends with empty difference tabs and an all-zero totals row.
C8_HeaderOnlyTable ==
    (BothRead /\ pc # "check" /\ ColumnDiff = {}
        /\ (sheets[1].cells = <<>> \/ sheets[2].cells = <<>>)) =>
        /\ error = "none"
        /\ pc = "exit" =>
              /\ exit_code = 0
              /\ Len(out.xlsx) >= 5
              /\ Len(out.xlsx[5].rows) = 2

\* C9: after a successful run, whatever out/ held before, out.xlsx has
\* exactly five sheets named 1 to 5, tables A and B first, and no
\* intermediate csv file remains.
C9_FiveSheets ==
    (pc = "exit" /\ exit_code = 0) =>
        /\ Len(out.xlsx) = 5
        /\ \A i \in 1..Len(out.xlsx) : out.xlsx[i].title = "Onglet " \o Digit[i + 1]
        /\ Len(out.xlsx[1].rows) = Len(files[1]) + 1
        /\ Len(out.xlsx[2].rows) = Len(files[2]) + 1
        /\ DOMAIN out.csv = {}

\* C10: in tab 5 the difference flag of the key column, the first column of
\* table A's header, is "0" in every delta row and in the totals row.
C10_KeyColumnNeverDiffers ==
    pc = "merge" =>
        /\ Tab5[1][1] = files[1][1].keys[1]
        /\ \A r \in 2..Len(Tab5) : Tab5[r][3] = "0"

\* One index dropped, one pair kept, and that pair differs elsewhere.
C10_Witness ==
    /\ pc = "merge"
    /\ Len(files[1]) = 2
    /\ Len(files[2]) = 2
    /\ Len(Tab5) = 3
    /\ Tab5[3][6] = "1"

====
